---- MODULE Spec2Model ----
(***************************************************************************)
(* geopandas.GeoDataFrame (src/geopandas/geodataframe.py): a pandas        *)
(* DataFrame with a designated geometry column and a CRS tag.              *)
(*                                                                         *)
(* The heap is modelled explicitly: `tables` holds the frame objects       *)
(* (class, reference to the underlying storage `_data`, the metadata       *)
(* attributes `_geometry_column_name` and `crs`), `stores` holds the       *)
(* storages (row index, column names, column values).  A shallow copy      *)
(* shares its storage with the original, a deep copy owns a fresh one.     *)
(* `fs` is the file system seen by to_file, `calls` counts the calls that   *)
(* can change heap or file system, `last` records the last call            *)
(* (operation, receiver, arguments, outcome, and the heap before it).      *)
(***************************************************************************)
EXTENDS Integers, Sequences, FiniteSets, TLC

VARIABLES tables, stores, fs, calls, last

vars == <<tables, stores, fs, calls, last>>

\* Bounds of the exploration: number of frame objects and of storages.
MaxTables == 2
MaxStores == 3
\* Bound on the frames built from data (the others derive from them).
MaxRoots == 1
\* Bound on the number of calls that can change the heap or the file system.
MaxCalls == 3

-----------------------------------------------------------------------------
(* Cell values.  Every value is a record of the same shape so that any two *)
(* values can be compared: k is the kind, t a text, c a number.            *)

Geom(t, c) == [k |-> "geom", t |-> t, c |-> c]   \* shapely geometry of type t
Num(c)     == [k |-> "num",  t |-> "",  c |-> c] \* a number
Str(s)     == [k |-> "str",  t |-> s,  c |-> 0]  \* a string scalar
NaN        == [k |-> "nan",  t |-> "",  c |-> 0] \* numpy.nan, the missing value
JsonNull   == [k |-> "null", t |-> "",  c |-> 0] \* Python None / JSON null
CrsCell(c) == [k |-> "crs",  t |-> c,  c |-> 0]  \* a crs mapping stored in a cell

IsNull(v) == v.k \in {"nan", "null"}

\* The class default of GeoDataFrame._geometry_column_name.
DefaultGeometryColumnName == "geometry"

\* self.crs of an object on which __init__ never ran (no such attribute).
CrsUnset == "unset"
\* crs=None
CrsNone == "None"
\* The crs mappings used as inputs.
CrsValues == {"epsg:4326", "epsg:26918"}

-----------------------------------------------------------------------------
(* Storage: index is the sequence of row labels, cols the sequence of      *)
(* column names (duplicates possible), vals the columns' value sequences,  *)
(* parallel to cols.                                                       *)

\* The elements of s at the positions P, in order.
Take(s, P) ==
    [k \in 1..Cardinality(P \cap DOMAIN s) |->
        s[CHOOSE p \in P \cap DOMAIN s :
              Cardinality({q \in P \cap DOMAIN s : q < p}) = k - 1]]

ColPos(st, name) == {i \in DOMAIN st.cols : st.cols[i] = name}

\* `name in frame`
InCols(st, name) == ColPos(st, name) # {}

\* The values of the (single) column called name.
Column(st, name) == st.vals[CHOOSE i \in ColPos(st, name) : TRUE]

NRows(st) == Len(st.index)

\* frame[name] = v, DataFrame.__setitem__ with a full-length column v:
\* overwrites the column(s) of that name, or appends a new column.
SetItem(st, name, v) ==
    IF InCols(st, name)
    THEN [st EXCEPT !.vals = [i \in DOMAIN st.vals |->
                                 IF st.cols[i] = name THEN v ELSE st.vals[i]]]
    ELSE [st EXCEPT !.cols = Append(@, name), !.vals = Append(@, v)]

\* A scalar assigned to a column is broadcast over the rows.
Broadcast(st, x) == [i \in 1..NRows(st) |-> x]

\* The rows at the positions P, every column kept.
TakeRows(st, P) ==
    [index |-> Take(st.index, P),
     cols  |-> st.cols,
     vals  |-> [i \in DOMAIN st.vals |-> Take(st.vals[i], P)]]

-----------------------------------------------------------------------------
(* Arguments.  A geometry source / a key is a column name, a position, a   *)
(* raw sequence of values, a list of column names, or a boolean mask.      *)

NameArg(n)  == [k |-> "name", n |-> n,  i |-> 0, seq |-> <<>>]
PosArg(i)   == [k |-> "pos",  n |-> "", i |-> i, seq |-> <<>>]
RawArg(seq) == [k |-> "raw",  n |-> "", i |-> 0, seq |-> seq]
ListKey(ns) == [k |-> "list", n |-> "", i |-> 0, seq |-> ns]
MaskKey(bs) == [k |-> "mask", n |-> "", i |-> 0, seq |-> bs]
NoArg       == [k |-> "none", n |-> "", i |-> 0, seq |-> <<>>]

\* Outcome of a call on the heap h: the heap after it, whether it returned
\* or raised, the error raised, and the object returned (0 is None).
Ok(h, ret)     == [h |-> h, status |-> "ok",    err |-> "",  ret |-> ret]
Raise(h, err)  == [h |-> h, status |-> "raise", err |-> err, ret |-> 0]

\* Result of a selection: status/err, the class of the result, its rows,
\* columns and values, and the crs attribute set on it (CrsUnset: none).
Selected(cls, index, cols, vals, crs) ==
    [status |-> "ok", err |-> "", cls |-> cls, index |-> index,
     cols |-> cols, vals |-> vals, crs |-> crs]
NotSelected(err) ==
    [status |-> "raise", err |-> err, cls |-> "", index |-> <<>>,
     cols |-> <<>>, vals |-> <<>>, crs |-> CrsUnset]

\* The positions of the columns, and those a list of names selects, in
\* list order.
Positions(st) == [j \in DOMAIN st.cols |-> j]

ListPositions(st, ns) ==
    LET F[i \in 0..Len(ns)] ==
            IF i = 0 THEN <<>>
            ELSE F[i-1] \o Take(Positions(st), ColPos(st, ns[i]))
    IN  F[Len(ns)]

\* The columns at the positions P (a sequence), as an object of class cls.
SelectColumns(cls, st, P) ==
    Selected(cls, st.index, [i \in DOMAIN P |-> st.cols[P[i]]],
             [i \in DOMAIN P |-> st.vals[P[i]]], CrsUnset)

SelectedFrame(r) == Selected("DataFrame", r.index, r.cols, r.vals, CrsUnset)

\* DataFrame.__getitem__ (pandas): a name selects its column (a Series) or,
\* when several columns carry the name, a DataFrame of them; a list of names
\* selects those columns; a boolean mask selects rows.
DataFrame_getitem(st, key) ==
    CASE key.k = "name" ->
           IF ~InCols(st, key.n) THEN NotSelected("KeyError")
           ELSE SelectColumns(IF Cardinality(ColPos(st, key.n)) = 1
                              THEN "Series" ELSE "DataFrame",
                              st, Take(Positions(st), ColPos(st, key.n)))
      [] key.k = "list" ->
           IF \E i \in DOMAIN key.seq : ~InCols(st, key.seq[i])
           THEN NotSelected("KeyError")
           ELSE SelectColumns("DataFrame", st, ListPositions(st, key.seq))
      [] key.k = "mask" ->
           IF Len(key.seq) # NRows(st) THEN NotSelected("ValueError:length")
           ELSE SelectedFrame(TakeRows(st, {i \in DOMAIN key.seq : key.seq[i]}))
      [] OTHER -> NotSelected("KeyError")

\* result['crs'] = crs
WithCrsColumn(result, crs) ==
    [result EXCEPT
        !.cols = SetItem(result, "crs", Broadcast(result, CrsCell(crs))).cols,
        !.vals = SetItem(result, "crs", Broadcast(result, CrsCell(crs))).vals]

\* __getitem__ without lines 262-271: the result pandas gives.
untagged(tb, key, result) == result

\* Lines 262-271 of __getitem__: the pandas result is re-tagged.  Reading
\* self.crs on an object that has no such attribute raises AttributeError.
Retag(tb, key, result) ==
    IF result.status = "raise" THEN result
    ELSE IF key.k = "name" /\ key.n = tb.gname
    THEN IF tb.crs = CrsUnset THEN NotSelected("AttributeError")
         ELSE [result EXCEPT !.cls = "GeoSeries", !.crs = tb.crs]
    ELSE IF result.cls = "DataFrame" /\ InCols(result, tb.gname)
    THEN IF tb.crs = CrsUnset THEN NotSelected("AttributeError")
         ELSE [result EXCEPT !.cls = "GeoDataFrame", !.crs = tb.crs]
    ELSE IF result.cls = "DataFrame" /\ ~InCols(result, tb.gname)
    THEN IF tb.crs = CrsUnset THEN NotSelected("AttributeError")
         ELSE WithCrsColumn(result, tb.crs)
    ELSE result

\* GeoDataFrame.__getitem__
getitem(tb, st, key) == Retag(tb, key, DataFrame_getitem(st, key))

\* The geometry property (getter): self[self._geometry_column_name].
geometry(tb, st) == getitem(tb, st, NameArg(tb.gname))

-----------------------------------------------------------------------------
(* Heap helpers.                                                           *)

StoreOf(h, id) == h.s[h.t[id].data]

WithStore(h, id, st) == [h EXCEPT !.s[h.t[id].data] = st]

KeptRows(st, label) == {i \in DOMAIN st.index : st.index[i] # label}

\* DataFrame.drop(label, inplace=True) (pandas): axis defaults to 0, the row
\* index.  The rows labelled `label` are removed and the frame is rebound to
\* the new storage; a label that is not in the row index raises.
DataFrame_drop(h, id, label) ==
    IF KeptRows(StoreOf(h, id), label) = DOMAIN StoreOf(h, id).index
    THEN Raise(h, "ValueError:drop")
    ELSE Ok([t |-> [h.t EXCEPT ![id].data = Len(h.s) + 1],
             s |-> Append(h.s, TakeRows(StoreOf(h, id),
                                        KeptRows(StoreOf(h, id), label)))], 0)

-----------------------------------------------------------------------------
(* GeoDataFrame.set_geometry, __init__, copy.                              *)

\* `col` after lines 84-88: a col that is not a column of frame is looked up
\* as a position in self.columns; a failed lookup leaves col as it was.
ResolveCol(h, frame, self, col) ==
    IF col.k = "name" /\ InCols(StoreOf(h, frame), col.n) THEN col
    ELSE IF col.k = "pos" /\ col.i >= 0 /\ col.i < Len(StoreOf(h, self).cols)
         THEN NameArg(StoreOf(h, self).cols[col.i + 1])
         ELSE col

\* Lines 90-98: level is frame[col].
SetFromLevel(h, frame, c, level, drop) ==
    IF level.status = "raise" THEN Raise(h, level.err)
    ELSE IF level.cls \notin {"Series", "GeoSeries"}
    THEN Raise(h, "ValueError:ambiguous")
    ELSE IF drop
    THEN IF c.n # h.t[frame].gname
         THEN DataFrame_drop(
                  WithStore(h, frame, SetItem(StoreOf(h, frame),
                                              h.t[frame].gname, level.vals[1])),
                  frame, c.n)
         ELSE Ok(h, 0)
    ELSE Ok([h EXCEPT !.t[frame].gname = c.n], 0)

\* Lines 89-98, col being resolved.
SetFromColumn(h, frame, c, drop) ==
    SetFromLevel(h, frame, c, getitem(h.t[frame], StoreOf(h, frame), c), drop)

\* Lines 80-98 of set_geometry, on the frame chosen by lines 75-78.  On a
\* raise the heap is the one reached when the error was raised.
set_geometry_body(h, frame, self, col, drop) ==
    IF col.k = "raw"
    THEN IF Len(col.seq) # NRows(StoreOf(h, frame))
         THEN Raise(h, "ValueError:length")
         ELSE Ok(WithStore(h, frame, SetItem(StoreOf(h, frame),
                                             h.t[frame].gname, col.seq)), 0)
    ELSE SetFromColumn(h, frame, ResolveCol(h, frame, self, col), drop)

\* Lines 28-31 of __init__: the new object, appended to the heap.
NewObject(h, sid, crs) ==
    [h EXCEPT !.t = Append(@, [cls |-> "GeoDataFrame", data |-> sid,
                               gname |-> DefaultGeometryColumnName,
                               crs |-> crs])]

\* Lines 32-33 of __init__.
Promote(h1, id, geom) ==
    IF geom.k # "none" THEN set_geometry_body(h1, id, id, geom, TRUE)
    ELSE Ok(h1, 0)

\* __init__ without the check of lines 34-36: the variant the
\* geometry-column invariant rules out.
init_unchecked(h, r, id) ==
    IF r.status = "raise" THEN Raise(h, r.err) ELSE Ok(r.h, id)

\* Lines 34-36 of __init__; when __init__ raises no object comes to exist.
CheckGeometryColumn(h, r, id) ==
    IF r.status = "raise" THEN Raise(h, r.err)
    ELSE IF ~InCols(StoreOf(r.h, id), r.h.t[id].gname)
    THEN Raise(h, "ValueError:construction")
    ELSE Ok(r.h, id)

\* GeoDataFrame.__init__ on the storage sid.
init(h, sid, geom, crs) ==
    CheckGeometryColumn(h, Promote(NewObject(h, sid, crs), Len(h.t) + 1, geom),
                        Len(h.t) + 1)

\* __finalize__: every attribute of _metadata is copied from other to self,
\* getattr(other, name, None) giving None for an attribute other lacks.
finalize(h, self, other) ==
    [h EXCEPT !.t[self].crs = IF h.t[other].crs = CrsUnset THEN CrsNone
                              ELSE h.t[other].crs,
              !.t[self].gname = h.t[other].gname]

\* Line 305: r is the outcome of GeoDataFrame(data).
Finalized(h, r, other) ==
    IF r.status = "raise" THEN Raise(h, r.err)
    ELSE Ok(finalize(r.h, r.ret, other), r.ret)

\* GeoDataFrame.copy: GeoDataFrame(data).__finalize__(self), data being
\* self._data itself or, when deep, a copy of it.
copy(h, self, deep) ==
    Finalized(h,
              init(IF deep THEN [h EXCEPT !.s = Append(@, StoreOf(h, self))]
                   ELSE h,
                   IF deep THEN Len(h.s) + 1 ELSE h.t[self].data,
                   NoArg, CrsNone),
              self)

\* Lines 100-101: the frame is returned.
Returning(h, r, frame) ==
    IF r.status = "raise" THEN Raise(h, r.err) ELSE Ok(r.h, frame)

\* Lines 78-101, c being the outcome of self.copy().
OnCopy(h, c, self, col, drop) ==
    IF c.status = "raise" THEN Raise(h, c.err)
    ELSE Returning(h, set_geometry_body(c.h, c.ret, self, col, drop), c.ret)

\* set_geometry working on a shallow copy, which shares the receiver's
\* storage: the variant the copy-on-write property rules out.
set_geometry_shallow(h, self, col, drop, inplace) ==
    IF inplace THEN set_geometry_body(h, self, self, col, drop)
    ELSE OnCopy(h, copy(h, self, FALSE), self, col, drop)

\* GeoDataFrame.set_geometry(col, drop, inplace).
set_geometry(h, self, col, drop, inplace) ==
    IF inplace THEN set_geometry_body(h, self, self, col, drop)
    ELSE OnCopy(h, copy(h, self, TRUE), self, col, drop)

\* Lines 312-317: the frame (self or a copy of it), re-classed.
FrameOf(h, self, inplace) == IF inplace THEN self ELSE Len(h.t) + 1

Reclassed(h, self, inplace) ==
    [(IF inplace THEN h
      ELSE [t |-> Append(h.t, [h.t[self] EXCEPT !.data = Len(h.s) + 1]),
            s |-> Append(h.s, StoreOf(h, self))])
     EXCEPT !.t[FrameOf(h, self, inplace)].cls = "GeoDataFrame"]

\* Lines 318-321: the return value of frame.set_geometry is not used.
BoundResult(h, h2, r, frame, inplace) ==
    IF inplace THEN r
    ELSE IF r.status = "raise" THEN Raise(h, r.err)
    ELSE Ok(h2, frame)

\* dataframe_set_geometry, bound to pandas.DataFrame as set_geometry.
dataframe_set_geometry(h, self, col, drop, inplace) ==
    BoundResult(h, Reclassed(h, self, inplace),
                set_geometry(Reclassed(h, self, inplace),
                             FrameOf(h, self, inplace), col, drop, inplace),
                FrameOf(h, self, inplace), inplace)

-----------------------------------------------------------------------------
(* Assignment to the geometry attribute, geometry_setter, to_crs.          *)

\* The attribute name in `df.geometry = value`.
GeometryAttr == "geometry"

\* The column a value assigned to a column becomes: a list is taken as it
\* is (its length must be the number of rows), a scalar is broadcast.
AsColumn(st, v) ==
    IF v.k = "raw" THEN v.seq
    ELSE IF v.k = "name" THEN Broadcast(st, Str(v.n))
    ELSE Broadcast(st, Num(v.i))

\* DataFrame.__setattr__ for the attribute geometry, `existing` being the
\* outcome of reading it: only AttributeError and TypeError are caught
\* there; when the name is a column that column is assigned, otherwise
\* object.__setattr__ fails on the property, which has no setter.
AssignColumn(h, self, existing, v) ==
    IF existing.status = "raise" /\ existing.err = "KeyError"
    THEN Raise(h, "KeyError")
    ELSE IF existing.status = "raise" THEN Raise(h, "AttributeError")
    ELSE IF InCols(StoreOf(h, self), GeometryAttr)
    THEN IF v.k = "raw" /\ Len(v.seq) # NRows(StoreOf(h, self))
         THEN Raise(h, "ValueError:length")
         ELSE Ok(WithStore(h, self, SetItem(StoreOf(h, self), GeometryAttr,
                                            AsColumn(StoreOf(h, self), v))), 0)
    ELSE Raise(h, "AttributeError")

\* df.geometry = v.  Lines 42-43 bind the property that has the setter to
\* the class attribute geometry_setter; the class attribute geometry is the
\* property of lines 38-40, which has no setter.
geometry_assign(h, self, v) ==
    AssignColumn(h, self, geometry(h.t[self], StoreOf(h, self)), v)

\* geometry_setter(self, col), lines 43-48, reached by assigning to the
\* attribute geometry_setter.  `col in self` hashes col: a list raises.
geometry_setter(h, self, col) ==
    IF col.k = "raw" THEN Raise(h, "TypeError")
    ELSE IF col.k = "name" /\ InCols(StoreOf(h, self), col.n)
    THEN Raise(h, "ValueError:setter")
    ELSE set_geometry(h, self, col, TRUE, TRUE)

\* Coordinates of a position in each coordinate system.
CrsOffset(crs) == IF crs = "epsg:26918" THEN 10 ELSE 0

Project(v, from, to) == Geom(v.t, v.c + CrsOffset(to) - CrsOffset(from))

\* GeoSeries.to_crs: every geometry is re-projected from the series' crs to
\* the target, and the result is tagged with the target.  There is nothing
\* to project from or to without a crs, and only geometries are projected.
GeoSeries_to_crs(g, crs) ==
    IF g.crs = CrsNone \/ crs = CrsNone THEN NotSelected("ValueError:crs")
    ELSE IF \E i \in DOMAIN g.vals[1] : g.vals[1][i].k # "geom"
    THEN NotSelected("TypeError")
    ELSE [g EXCEPT !.vals = <<[i \in DOMAIN g.vals[1] |->
                                 Project(g.vals[1][i], g.crs, crs)]>>,
                   !.crs = crs]

\* Lines 250-252: a is the outcome of `df.geometry = geom`.
SetCrs(h, a, df, crs, inplace) ==
    IF a.status = "raise" THEN Raise(h, a.err)
    ELSE Ok([a.h EXCEPT !.t[df].crs = crs], IF inplace THEN 0 ELSE df)

\* Line 249: geom is the outcome of df.geometry.to_crs(...).
AssignProjected(h, c, geom, inplace) ==
    IF geom.status = "raise" THEN Raise(h, geom.err)
    ELSE SetCrs(h, geometry_assign(c.h, c.ret, RawArg(geom.vals[1])),
                c.ret, geom.crs, inplace)

\* Line 248: g is the outcome of df.geometry.
ProjectGeometry(h, c, g, crs, inplace) ==
    IF g.status = "raise" THEN Raise(h, g.err)
    ELSE IF g.cls # "GeoSeries" \/ Len(g.vals) # 1 THEN Raise(h, "TypeError")
    ELSE AssignProjected(h, c, GeoSeries_to_crs(g, crs), inplace)

\* Lines 248-252, c being the frame chosen by lines 244-247.
OnFrame(h, c, crs, inplace) ==
    IF c.status = "raise" THEN Raise(h, c.err)
    ELSE ProjectGeometry(h, c, geometry(c.h.t[c.ret], StoreOf(c.h, c.ret)),
                         crs, inplace)

\* GeoDataFrame.to_crs(crs, inplace).
to_crs(h, self, crs, inplace) ==
    OnFrame(h, IF inplace THEN Ok(h, self) ELSE copy(h, self, TRUE), crs, inplace)

-----------------------------------------------------------------------------
(* to_json.                                                                *)

\* One row as the list of (column name, value) pairs row.iteritems() yields.
RowItems(st, i) == [j \in DOMAIN st.cols |-> [key |-> st.cols[j], v |-> st.vals[j][i]]]

\* dict(items): a key that occurs several times keeps its last value.
DictOf(items) ==
    [key \in {items[j].key : j \in DOMAIN items} |->
        items[CHOOSE j \in DOMAIN items :
                 /\ items[j].key = key
                 /\ \A j2 \in DOMAIN items : items[j2].key = key => j2 <= j].v]

Without(d, key) == [x \in (DOMAIN d) \ {key} |-> d[x]]

\* fill_none: the row as a dict, every key of a null entry set to None.
fill_none(items) ==
    [key \in DOMAIN DictOf(items) |->
        IF \E j \in DOMAIN items : items[j].key = key /\ IsNull(items[j].v)
        THEN JsonNull ELSE DictOf(items)[key]]

\* A dropna that drops nothing.
dropna_none(items) == items

\* row.dropna(): the entries that are not null.
dropna(items) == Take(items, {j \in DOMAIN items : ~IsNull(items[j].v)})

NaMethods == {"null", "drop", "keep"}

\* f(row) of to_json, as the dict the feature is built from.
ApplyNa(na, items) ==
    IF na = "null" THEN fill_none(items)
    ELSE IF na = "drop" THEN DictOf(dropna(items))
    ELSE DictOf(items)

\* The entries of the row under the name key, after f(row): row[key] is a
\* scalar only if there is exactly one.
RowCount(na, items, key) ==
    IF na = "null" THEN (IF \E j \in DOMAIN items : items[j].key = key THEN 1 ELSE 0)
    ELSE IF na = "drop"
    THEN Cardinality({j \in DOMAIN dropna(items) : dropna(items)[j].key = key})
    ELSE Cardinality({j \in DOMAIN items : items[j].key = key})

\* row[geo_col_name] raises KeyError when the row has no such entry;
\* shapely's mapping() needs a geometry.  "" stands for no error.
GeometryError(n, row, gname) ==
    IF n = 0 THEN "KeyError"
    ELSE IF n > 1 THEN "AttributeError"
    ELSE IF row[gname].k # "geom" THEN "AttributeError"
    ELSE ""

FeatureError(tb, st, na, i) ==
    GeometryError(RowCount(na, RowItems(st, i), tb.gname),
                  ApplyNa(na, RowItems(st, i)), tb.gname)

MakeFeature(id, row, gname) ==
    [id |-> id, type |-> "Feature", properties |-> Without(row, gname),
     geometry |-> row[gname]]

\* feature(i, row) of to_json.
feature(tb, st, na, i) ==
    MakeFeature(st.index[i], ApplyNa(na, RowItems(st, i)), tb.gname)

\* json.dumps accepts numbers, strings, None and NaN, nothing else.
Serializable(v) == v.k \in {"num", "str", "nan", "null"}

dumps(fts) ==
    IF \E i \in DOMAIN fts : \E key \in DOMAIN fts[i].properties :
           ~Serializable(fts[i].properties[key])
    THEN [status |-> "raise", err |-> "TypeError", features |-> <<>>]
    ELSE [status |-> "ok", err |-> "", features |-> fts]

\* Lines 180-183, bad being the rows whose feature cannot be built.
Features(tb, st, na, bad) ==
    IF bad # {}
    THEN [status |-> "raise",
          err |-> FeatureError(tb, st, na, CHOOSE i \in bad : \A j \in bad : i <= j),
          features |-> <<>>]
    ELSE dumps([i \in DOMAIN st.index |-> feature(tb, st, na, i)])

\* GeoDataFrame.to_json(na): the features of the FeatureCollection, or the
\* error raised.
to_json(tb, st, na) ==
    IF na \notin NaMethods
    THEN [status |-> "raise", err |-> "ValueError:na", features |-> <<>>]
    ELSE Features(tb, st, na,
                  {i \in DOMAIN st.index : FeatureError(tb, st, na, i) # ""})

-----------------------------------------------------------------------------
(* to_file.                                                                *)

\* The geom_type names of shapely, as the sequences of their character codes.
GeomTypes == {"Point", "LineString", "LinearRing", "Polygon", "MultiPoint", "MultiLineString", "MultiPolygon", "GeometryCollection"}

GeomTypeChars(g) ==
    CASE g = "Point" -> <<80, 111, 105, 110, 116>>
      [] g = "LineString" -> <<76, 105, 110, 101, 83, 116, 114, 105, 110, 103>>
      [] g = "LinearRing" -> <<76, 105, 110, 101, 97, 114, 82, 105, 110, 103>>
      [] g = "Polygon" -> <<80, 111, 108, 121, 103, 111, 110>>
      [] g = "MultiPoint" -> <<77, 117, 108, 116, 105, 80, 111, 105, 110, 116>>
      [] g = "MultiLineString" -> <<77, 117, 108, 116, 105, 76, 105, 110, 101, 83, 116, 114, 105, 110, 103>>
      [] g = "MultiPolygon" -> <<77, 117, 108, 116, 105, 80, 111, 108, 121, 103, 111, 110>>
      [] g = "GeometryCollection" -> <<71, 101, 111, 109, 101, 116, 114, 121, 67, 111, 108, 108, 101, 99, 116, 105, 111, 110>>

Reverse(s) == [i \in 1..Len(s) |-> s[Len(s) + 1 - i]]

\* a < b for strings (sequences of character codes).
LexLess(a, b) ==
    \E i \in 1..(Len(a) + 1) :
        /\ \A j \in 1..(i - 1) : j <= Len(b) /\ a[j] = b[j]
        /\ \/ i = Len(a) + 1 /\ Len(b) >= i
           \/ i <= Len(a) /\ i <= Len(b) /\ a[i] < b[i]

\* s1[:i] for the first i at which s1 and s2 differ, s1 if there is none.
SharedPrefix(s1, s2, diff) ==
    IF diff = {} THEN s1
    ELSE SubSeq(s1, 1, (CHOOSE i \in diff : \A j \in diff : i <= j) - 1)

Differences(s1, s2) == {i \in 1..Len(s1) : i > Len(s2) \/ s1[i] # s2[i]}

MinMaxPrefix(s1, s2) == SharedPrefix(s1, s2, Differences(s1, s2))

\* os.path.commonprefix(m): the prefix min(m) shares with max(m).
commonprefix(m) ==
    IF m = {} THEN <<>>
    ELSE MinMaxPrefix(CHOOSE x \in m : \A y \in m : x = y \/ LexLess(x, y),
                      CHOOSE x \in m : \A y \in m : x = y \/ LexLess(y, x))

\* convert_type(dtype) for the dtype pandas gives the column.
convert_type(colvals) ==
    IF \A i \in DOMAIN colvals : colvals[i].k = "num" THEN "int"
    ELSE IF \A i \in DOMAIN colvals : colvals[i].k \in {"num", "nan"} THEN "float"
    ELSE "str"

\* The last column called as column j is.
LastNamed(st, j) ==
    CHOOSE j2 \in DOMAIN st.cols :
        /\ st.cols[j2] = st.cols[j]
        /\ \A j3 \in DOMAIN st.cols : st.cols[j3] = st.cols[j] => j3 <= j2

\* The `properties` of the schema: an OrderedDict over the columns other
\* than the geometry column.
SchemaProperties(tb, st) ==
    Take([j \in DOMAIN st.cols |->
             [key |-> st.cols[j], type |-> convert_type(st.vals[LastNamed(st, j)])]],
         {j \in DOMAIN st.cols :
             /\ st.cols[j] # tb.gname
             /\ \A j2 \in DOMAIN st.cols : st.cols[j2] = st.cols[j] => j <= j2})

NoFile == [written |-> FALSE, geometry |-> <<>>, properties |-> <<>>, records |-> 0]

\* Lines 225-233: fiona.open(filename, 'w') creates the file.
WriteFile(files, tb, st, filename, geom_type) ==
    IF geom_type = <<>>
    THEN [status |-> "raise", err |-> "ValueError:mixed", fs |-> files]
    ELSE [status |-> "ok", err |-> "",
          fs |-> [files EXCEPT ![filename] =
                    [written |-> TRUE, geometry |-> geom_type,
                     properties |-> SchemaProperties(tb, st),
                     records |-> NRows(st)]]]

\* Lines 222-233, g being the outcome of self.geometry; geom_type is read
\* from geometries only.
CheckTypes(files, tb, st, filename, g) ==
    IF g.status = "raise"
    THEN [status |-> "raise", err |-> g.err, fs |-> files]
    ELSE IF g.cls # "GeoSeries" \/ Len(g.vals) # 1
            \/ \E i \in DOMAIN g.vals[1] : g.vals[1][i].k # "geom"
    THEN [status |-> "raise", err |-> "AttributeError", fs |-> files]
    ELSE WriteFile(files, tb, st, filename,
                   Reverse(commonprefix(
                       {Reverse(GeomTypeChars(g.vals[1][i].t)) :
                            i \in DOMAIN g.vals[1]})))

\* GeoDataFrame.to_file(filename): the file system after the call, or the
\* error raised.
to_file(files, tb, st, filename) ==
    CheckTypes(files, tb, st, filename, geometry(tb, st))

-----------------------------------------------------------------------------
(* Inputs.                                                                 *)

Pt(c) == Geom("Point", c)
Pg(c) == Geom("Polygon", c)

DefaultIndex == <<"0", "1">>

\* The data a frame is built from.
DataSets ==
    { \* a geometry column and two numeric columns with missing values
      [index |-> DefaultIndex, cols |-> <<"geometry", "A", "B">>,
       vals |-> << <<Pt(0), Pt(1)>>, <<Num(1), NaN>>, <<Num(2), Num(3)>> >>],
      \* a second column of geometries
      [index |-> DefaultIndex, cols |-> <<"geometry", "location">>,
       vals |-> << <<Pt(0), Pt(1)>>, <<Pg(2), Pg(3)>> >>],
      \* the same, a row label being equal to a column name
      [index |-> <<"0", "location">>, cols |-> <<"geometry", "location">>,
       vals |-> << <<Pt(0), Pt(1)>>, <<Pg(2), Pg(3)>> >>],
      \* no column called geometry
      [index |-> DefaultIndex, cols |-> <<"location", "A">>,
       vals |-> << <<Pt(0), Pt(1)>>, <<NaN, Num(2)>> >>],
      \* two columns of the same name
      [index |-> DefaultIndex, cols |-> <<"geometry", "A", "A">>,
       vals |-> << <<Pt(0), Pt(1)>>, <<Num(1), Num(2)>>, <<Num(3), NaN>> >>] }

RawSeqs == { <<Pt(5), Pg(6)>>, <<Pt(5)>> }

ColRefs == {NameArg(n) : n \in {"geometry", "location", "nosuch"}}
               \cup {PosArg(i) : i \in {1, 7}}

GeoSources == ColRefs \cup {RawArg(q) : q \in RawSeqs}

\* The values assigned to the geometry attribute.
Assigned == {RawArg(q) : q \in RawSeqs} \cup {NameArg("location")}

Keys == {NameArg(n) : n \in {"geometry", "location", "nosuch"}}
          \cup {ListKey(ns) : ns \in { <<"geometry", "A">>, <<"A", "B">>,
                                        <<"location", "A">> }}
          \cup {MaskKey(bs) : bs \in { <<TRUE, FALSE>>, <<TRUE>> }}

NaArgs == NaMethods \cup {"bogus"}

FileNames == {"a.shp"}

-----------------------------------------------------------------------------
(* State machine.                                                          *)

Heap == [t |-> tables, s |-> stores]

EmptyStore == [index |-> <<>>, cols |-> <<>>, vals |-> <<>>]

NoCall ==
    [op |-> "", self |-> 0, arg |-> NoArg, drop |-> FALSE, inplace |-> FALSE,
     deep |-> FALSE, crs |-> CrsNone, na |-> "", file |-> "",
     data |-> EmptyStore, status |-> "", err |-> "", ret |-> 0,
     val |-> <<>>, pre |-> [t |-> <<>>, s |-> <<>>],
     prefs |-> [f \in FileNames |-> NoFile]]

Call(rec, status, err, ret, val) ==
    [rec EXCEPT !.status = status, !.err = err, !.ret = ret, !.val = val,
                !.pre = Heap, !.prefs = fs]

InBounds(h) == Len(h.t) <= MaxTables /\ Len(h.s) <= MaxStores

\* The heap becomes r.h and the call is recorded.
Effect(rec, r) ==
    /\ calls < MaxCalls
    /\ InBounds(r.h)
    /\ calls' = calls + 1
    /\ tables' = r.h.t
    /\ stores' = r.h.s
    /\ last' = Call(rec, r.status, r.err, r.ret, <<>>)

\* The outcome of GeoDataFrame(...): a failed construction leaves no object.
Built(r) == IF r.status = "ok" THEN r ELSE Raise(Heap, r.err)

\* A call that changes nothing is recorded with its result.
Answer(rec, r) == Call(rec, r.status, r.err, 0, r)

\* The file system becomes r.fs and the call is recorded.
Written(rec, r) ==
    /\ fs' = r.fs
    /\ last' = Call(rec, r.status, r.err, 0, <<>>)

GeoTables == {id \in DOMAIN tables : tables[id].cls = "GeoDataFrame"}
PlainTables == {id \in DOMAIN tables : tables[id].cls = "DataFrame"}

Init ==
    /\ tables = <<>>
    /\ stores = <<>>
    /\ fs = [f \in FileNames |-> NoFile]
    /\ calls = 0
    /\ last = NoCall

\* GeoDataFrame(data, geometry=geom, crs=crs)
Construct ==
    \E data \in DataSets, geom \in GeoSources \cup {NoArg},
       crs \in {CrsNone, "epsg:4326"} :
        /\ Len(tables) < MaxRoots
        /\ Effect([NoCall EXCEPT !.op = "init", !.data = data,
                                 !.arg = geom, !.crs = crs],
                  Built(init([Heap EXCEPT !.s = Append(@, data)],
                             Len(stores) + 1, geom, crs)))
        /\ UNCHANGED fs

\* pandas.DataFrame(data)
DataFrameNew ==
    \E data \in DataSets :
        /\ Len(tables) < MaxRoots
        /\ Effect([NoCall EXCEPT !.op = "DataFrame", !.data = data],
                  Ok([t |-> Append(tables, [cls |-> "DataFrame",
                                            data |-> Len(stores) + 1,
                                            gname |-> DefaultGeometryColumnName,
                                            crs |-> CrsUnset]),
                      s |-> Append(stores, data)], Len(tables) + 1))
        /\ UNCHANGED fs

\* df.set_geometry(col, drop=drop, inplace=inplace) on a GeoDataFrame
SetGeometry ==
    \E self \in GeoTables, col \in GeoSources, drop \in BOOLEAN, inplace \in BOOLEAN :
        /\ Effect([NoCall EXCEPT !.op = "set_geometry", !.self = self,
                                 !.arg = col, !.drop = drop, !.inplace = inplace],
                  set_geometry(Heap, self, col, drop, inplace))
        /\ UNCHANGED fs

\* df.set_geometry(col, drop=drop, inplace=inplace) on a plain DataFrame
DataFrameSetGeometry ==
    \E self \in PlainTables, col \in GeoSources, drop \in BOOLEAN, inplace \in BOOLEAN :
        /\ Effect([NoCall EXCEPT !.op = "dataframe_set_geometry", !.self = self,
                                 !.arg = col, !.drop = drop, !.inplace = inplace],
                  dataframe_set_geometry(Heap, self, col, drop, inplace))
        /\ UNCHANGED fs

\* df.copy(deep=deep)
Copy ==
    \E self \in GeoTables, deep \in BOOLEAN :
        /\ Effect([NoCall EXCEPT !.op = "copy", !.self = self, !.deep = deep],
                  copy(Heap, self, deep))
        /\ UNCHANGED fs

\* df.to_crs(crs=crs, inplace=inplace)
ToCrs ==
    \E self \in GeoTables, crs \in CrsValues \cup {CrsNone}, inplace \in BOOLEAN :
        /\ Effect([NoCall EXCEPT !.op = "to_crs", !.self = self, !.crs = crs,
                                 !.inplace = inplace],
                  to_crs(Heap, self, crs, inplace))
        /\ UNCHANGED fs

\* df.geometry = v
GeometryAssign ==
    \E self \in GeoTables, v \in Assigned :
        /\ Effect([NoCall EXCEPT !.op = "geometry=", !.self = self, !.arg = v],
                  geometry_assign(Heap, self, v))
        /\ UNCHANGED fs

\* df.geometry_setter = col
GeometrySetter ==
    \E self \in GeoTables, col \in ColRefs :
        /\ Effect([NoCall EXCEPT !.op = "geometry_setter", !.self = self,
                                 !.arg = col],
                  geometry_setter(Heap, self, col))
        /\ UNCHANGED fs

\* df[key]
GetItem ==
    \E self \in GeoTables, key \in Keys :
        /\ last' = Answer([NoCall EXCEPT !.op = "getitem", !.self = self,
                                         !.arg = key],
                           getitem(tables[self], stores[tables[self].data], key))
        /\ UNCHANGED <<tables, stores, fs, calls>>

\* df.to_json(na=na)
ToJson ==
    \E self \in GeoTables, na \in NaArgs :
        /\ last' = Answer([NoCall EXCEPT !.op = "to_json", !.self = self,
                                         !.na = na],
                           to_json(tables[self], stores[tables[self].data], na))
        /\ UNCHANGED <<tables, stores, fs, calls>>

\* df.to_file(filename)
ToFile ==
    \E self \in GeoTables, filename \in FileNames :
        /\ calls < MaxCalls
        /\ calls' = calls + 1
        /\ Written([NoCall EXCEPT !.op = "to_file", !.self = self,
                                  !.file = filename],
                   to_file(fs, tables[self], stores[tables[self].data], filename))
        /\ UNCHANGED <<tables, stores>>

Next ==
    \/ Construct
    \/ DataFrameNew
    \/ SetGeometry
    \/ DataFrameSetGeometry
    \/ Copy
    \/ ToCrs
    \/ GeometryAssign
    \/ GeometrySetter
    \/ GetItem
    \/ ToJson
    \/ ToFile

Spec == Init /\ [][Next]_vars

\* The operations on frames built by GeoDataFrame(...): construction,
\* set_geometry, copy and to_crs.
NextGeo ==
    \/ Construct
    \/ SetGeometry
    \/ Copy
    \/ ToCrs

SpecGeo == Init /\ [][NextGeo]_vars

\* to_file on a frame of two geometries, of every pair of geometry types.
InitFile ==
    /\ \E a \in GeomTypes, b \in GeomTypes :
          stores = << [index |-> DefaultIndex, cols |-> <<"geometry", "A">>,
                       vals |-> << <<Geom(a, 0), Geom(b, 1)>>,
                                   <<Num(1), Num(2)>> >>] >>
    /\ tables = << [cls |-> "GeoDataFrame", data |-> 1,
                    gname |-> DefaultGeometryColumnName, crs |-> CrsNone] >>
    /\ fs = [f \in FileNames |-> NoFile]
    /\ calls = 0
    /\ last = NoCall

NextFile == ToFile

SpecFile == InitFile /\ [][NextFile]_vars

\* construction, set_geometry and assignment to the geometry attribute.
NextAssign ==
    \/ Construct
    \/ SetGeometry
    \/ GeometryAssign

SpecAssign == Init /\ [][NextAssign]_vars

-----------------------------------------------------------------------------
(* Properties.  They read the last call: its arguments, its outcome, the   *)
(* heap before it (last.pre) and the heap now.                             *)

\* The storage of frame id before the last call, and now.
StoreBefore(id) == last.pre.s[last.pre.t[id].data]
StoreNow(id) == stores[tables[id].data]

\* The frame the last set_geometry or to_crs worked on: the receiver when
\* in place, the returned frame otherwise.
Result == IF last.inplace THEN last.self ELSE last.ret

\* What reading .geometry on frame id gives now.
GeometryNow(id) == geometry(tables[id], StoreNow(id))

\* The column the source of the last call refers to in the receiver.
SourceName == ResolveCol(last.pre, last.self, last.self, last.arg)

\* The source names exactly one column of the receiver.
SourceIsOneColumn ==
    /\ last.arg.k \in {"name", "pos"}
    /\ SourceName.k = "name"
    /\ Cardinality(ColPos(StoreBefore(last.self), SourceName.n)) = 1

\* The source is a raw sequence with one value per row of the receiver.
SourceIsRaw ==
    /\ last.arg.k = "raw"
    /\ Len(last.arg.seq) = NRows(StoreBefore(last.self))

\* The values of the source.
SourceValues ==
    IF last.arg.k = "raw" THEN last.arg.seq
    ELSE Column(StoreBefore(last.self), SourceName.n)

ColumnNames(st) == {st.cols[j] : j \in DOMAIN st.cols}

\* C1: every GeoDataFrame built by the constructor, or derived from one by
\* set_geometry, copy and to_crs, has the column its geometry-column name
\* designates; a construction succeeds only with that column present, and
\* one without a geometry argument on data that has no column called
\* 'geometry' raises the construction error (any other error of a
\* construction comes from the promotion of the geometry argument).
C1_GeometryColumnPresent ==
    /\ \A id \in GeoTables : InCols(StoreNow(id), tables[id].gname)
    /\ last.op = "init" =>
        /\ last.status = "ok" =>
              /\ last.ret \in GeoTables
              /\ InCols(StoreNow(last.ret), tables[last.ret].gname)
        /\ (last.arg = NoArg /\ ~InCols(last.data, DefaultGeometryColumnName)) =>
              /\ last.status = "raise"
              /\ last.err = "ValueError:construction"
        /\ (last.status = "raise" /\ last.err # "ValueError:construction") =>
              last.arg # NoArg

\* C1, the case: a copy was taken of a frame whose geometry column had been
\* re-designated to 'location'; the copy designates the same column.
C1_Witness ==
    /\ last.op = "copy"
    /\ last.status = "ok"
    /\ tables[last.ret].gname = "location"
    /\ InCols(StoreNow(last.ret), "location")

\* C2: set_geometry(col) on an existing column col returns a frame; with
\* drop=True and col other than the geometry-column name that frame has no
\* column col any more and the geometry column holds col's values; with
\* drop=False col stays, becomes the geometry-column name, and the column
\* designated before is still there.
C2_DropRemovesColumn ==
    (last.op = "set_geometry" /\ last.arg.k = "name" /\ SourceIsOneColumn) =>
        /\ last.status = "ok"
        /\ (last.drop /\ last.arg.n # last.pre.t[last.self].gname) =>
              /\ ~InCols(StoreNow(Result), last.arg.n)
              /\ Column(StoreNow(Result), tables[Result].gname) = SourceValues
        /\ ~last.drop =>
              /\ InCols(StoreNow(Result), last.arg.n)
              /\ tables[Result].gname = last.arg.n
              /\ InCols(StoreNow(Result), last.pre.t[last.self].gname)

\* C3: set_geometry(S), S an existing column (by name or position, dropped
\* or not) or a raw sequence, returns a frame whose .geometry reads exactly
\* the values of S; after `df.geometry = raw` df.geometry reads raw.
C3_GeometryReadsSource ==
    /\ (last.op = "set_geometry" /\ (SourceIsOneColumn \/ SourceIsRaw)) =>
          /\ last.status = "ok"
          /\ GeometryNow(Result).status = "ok"
          /\ GeometryNow(Result).vals = <<SourceValues>>
    /\ (last.op = "geometry=" /\ SourceIsRaw) =>
          /\ last.status = "ok"
          /\ GeometryNow(last.self).status = "ok"
          /\ GeometryNow(last.self).vals = <<SourceValues>>

KeyIsValid ==
    \/ last.arg.k = "name" /\ InCols(StoreNow(last.self), last.arg.n)
    \/ /\ last.arg.k = "list"
       /\ \A i \in DOMAIN last.arg.seq : InCols(StoreNow(last.self), last.arg.seq[i])
    \/ last.arg.k = "mask" /\ Len(last.arg.seq) = NRows(StoreNow(last.self))

KeyListsGeometry ==
    \E i \in DOMAIN last.arg.seq : last.arg.seq[i] = tables[last.self].gname

CrsOf(tb) == IF tb.crs = CrsUnset THEN CrsNone ELSE tb.crs

\* C6: copy() of a GeoDataFrame that has its geometry column, whatever the
\* column's name, returns a new GeoDataFrame with the crs and the
\* geometry-column name of the original; a deep copy is on a storage that
\* no frame had before.
C6_CopyPreservesMetadata ==
    (/\ last.op = "copy"
     /\ last.pre.t[last.self].cls = "GeoDataFrame"
     /\ InCols(StoreBefore(last.self), last.pre.t[last.self].gname)) =>
        /\ last.status = "ok"
        /\ last.ret \in GeoTables
        /\ last.ret \notin DOMAIN last.pre.t
        /\ CrsOf(tables[last.ret]) = CrsOf(last.pre.t[last.self])
        /\ tables[last.ret].gname = last.pre.t[last.self].gname
        /\ last.deep =>
              \A id \in DOMAIN last.pre.t :
                  tables[last.ret].data # last.pre.t[id].data

\* The shape category of a geometry type.
ShapeCategory(t) ==
    CASE t \in {"Point", "MultiPoint"} -> "point"
      [] t \in {"LineString", "LinearRing", "MultiLineString"} -> "line"
      [] t \in {"Polygon", "MultiPolygon"} -> "polygon"
      [] OTHER -> "collection"

GeometryCategories(st, gname) ==
    {ShapeCategory(Column(st, gname)[i].t) : i \in DOMAIN Column(st, gname)}

\* C7: to_file on a frame whose geometries are of two or more shape
\* categories raises the mixed-geometry error and leaves the file system as
\* it was: no file is opened.
C7_MixedCategoriesRaise ==
    (/\ last.op = "to_file"
     /\ Cardinality(GeometryCategories(StoreNow(last.self),
                                       tables[last.self].gname)) >= 2) =>
        /\ last.status = "raise"
        /\ last.err = "ValueError:mixed"
        /\ fs = last.prefs

\* The names under which row i of st has a value that is not missing.
PresentNames(st, i) ==
    {key \in ColumnNames(st) : \E j \in ColPos(st, key) : ~IsNull(st.vals[j][i])}

\* The property of feature ft under key is the cell of row i, a missing
\* one being null under na='null'.
PropertyIsCell(ft, st, key, i) ==
    ft.properties[key] =
        IF last.na = "null" /\ IsNull(Column(st, key)[i]) THEN JsonNull
        ELSE Column(st, key)[i]

\* The properties of feature ft, built from row i of st.
PropertiesFollowPolicy(ft, st, gname, i) ==
    /\ ft.id = st.index[i]
    /\ gname \notin DOMAIN ft.properties
    /\ last.na \in {"null", "keep"} =>
          DOMAIN ft.properties = ColumnNames(st) \ {gname}
    /\ last.na = "drop" =>
          DOMAIN ft.properties = PresentNames(st, i) \ {gname}
    /\ \A key \in DOMAIN ft.properties :
          Cardinality(ColPos(st, key)) = 1 => PropertyIsCell(ft, st, key, i)

\* C8: when to_json returns there is one feature per row, the geometry
\* column is in no properties map, and the map of a row has, under
\* na='null' and na='keep', a key for every other column (a missing value
\* being null, respectively NaN) and, under na='drop', a key for exactly
\* the other columns whose value in that row is not missing.
C8_PropertiesByNaPolicy ==
    (last.op = "to_json" /\ last.status = "ok") =>
        /\ Len(last.val.features) = NRows(StoreNow(last.self))
        /\ \A i \in DOMAIN last.val.features :
              PropertiesFollowPolicy(last.val.features[i], StoreNow(last.self),
                                     tables[last.self].gname, i)

\* C8, the case: under na='drop' one feature lost a key that another
\* feature of the same frame kept.
C8_Witness ==
    /\ last.op = "to_json"
    /\ last.status = "ok"
    /\ last.na = "drop"
    /\ \E i, j \in DOMAIN last.val.features :
          /\ "A" \notin DOMAIN last.val.features[i].properties
          /\ "A" \in DOMAIN last.val.features[j].properties

\* C9: `df.geometry = name`, name being an existing column, raises the
\* setter's ValueError and changes nothing of the frame.
C9_SetterRejectsExistingColumn ==
    (/\ last.op = "geometry="
     /\ last.arg.k = "name"
     /\ InCols(StoreBefore(last.self), last.arg.n)) =>
        /\ last.status = "raise"
        /\ last.err = "ValueError:setter"
        /\ tables[last.self] = last.pre.t[last.self]
        /\ StoreNow(last.self) = StoreBefore(last.self)

\* C10: GeoDataFrame(data, geometry=name), name being a column of data
\* other than 'geometry', returns a frame whose geometry-column name is
\* name, whose .geometry reads that column's values and which has no column
\* called 'geometry'; set_geometry(raw) on a frame returns a frame whose
\* designated column holds raw.
C10_ConstructWithNamedGeometry ==
    /\ (/\ last.op = "init"
        /\ last.arg.k = "name"
        /\ last.arg.n # DefaultGeometryColumnName
        /\ Cardinality(ColPos(last.data, last.arg.n)) = 1) =>
          /\ last.status = "ok"
          /\ tables[last.ret].gname = last.arg.n
          /\ GeometryNow(last.ret).status = "ok"
          /\ GeometryNow(last.ret).vals = <<Column(last.data, last.arg.n)>>
          /\ ~InCols(StoreNow(last.ret), DefaultGeometryColumnName)
    /\ (last.op = "set_geometry" /\ SourceIsRaw /\ ~last.inplace) =>
          /\ last.status = "ok"
          /\ Column(StoreNow(last.ret), last.pre.t[last.self].gname)
                = last.arg.seq

\* C11: set_geometry called on a plain DataFrame, when it returns, did what
\* the GeoDataFrame method does. Not in place: the plain frame is as it
\* was and the frame returned is a new GeoDataFrame whose geometry column
\* holds the values of the source, the source column being re-designated
\* under drop=False and removed under drop=True. In place: None is
\* returned and the receiver is a GeoDataFrame whose geometry column
\* holds the values of the source.
C11_BoundSetGeometry ==
    (/\ last.op = "dataframe_set_geometry"
     /\ last.status = "ok"
     /\ (SourceIsOneColumn \/ SourceIsRaw)) =>
        /\ ~last.inplace =>
              /\ tables[last.self] = last.pre.t[last.self]
              /\ StoreNow(last.self) = StoreBefore(last.self)
              /\ last.ret \notin DOMAIN last.pre.t
        /\ last.inplace => last.ret = 0
        /\ Result \in GeoTables
        /\ InCols(StoreNow(Result), tables[Result].gname)
        /\ Column(StoreNow(Result), tables[Result].gname) = SourceValues
        /\ (last.arg.k # "raw" /\ ~last.drop) =>
              tables[Result].gname = SourceName.n
        /\ (last.arg.k # "raw" /\ last.drop
                /\ SourceName.n # last.pre.t[last.self].gname) =>
              ~InCols(StoreNow(Result), SourceName.n)

====
